---- MODULE Spec2Model ----
(***************************************************************************)
(* VolunteerScheduler (src/volunteerScheduler.py): the pipeline            *)
(*   load_volunteers -> generate_schedule_dates -> solve_schedule          *)
(* with the CP model that solve_schedule hands to the solver, the solver   *)
(* as the set of valuations satisfying that model, and _extract_solution.  *)
(*                                                                         *)
(* A datetime is an integer number of ticks since the proleptic Gregorian  *)
(* ordinal 0, TicksPerDay ticks to the day; volunteers and dates are       *)
(* numbered from 1 (the code numbers them from 0), cameras from 1.         *)
(***************************************************************************)
EXTENDS Integers, Sequences, FiniteSets, TLC

\* self.num_cameras
NumCameras == 7

\* resolution of the time of day
TicksPerDay == 2

\* the longest volunteer list of the general specification
MaxVolunteers == 2

\* the target_year of main()
FirstYear == 2026

\* how many years after FirstYear the monthly specification schedules
YearSpan == 1

\* how many weeks around the target month the availability rule is probed
ProbeWeeks == 5

Cameras == 1..NumCameras

(***************************************************************************)
(* datetime                                                                *)
(***************************************************************************)
IsLeap(y) == (y % 4 = 0) /\ ((y % 100 # 0) \/ (y % 400 = 0))

DaysInMonth(y, m) ==
    IF m = 2 THEN (IF IsLeap(y) THEN 29 ELSE 28)
    ELSE IF m \in {4, 6, 9, 11} THEN 30 ELSE 31

DaysBeforeYear(y) ==
    LET p == y - 1 IN p * 365 + (p \div 4) - (p \div 100) + (p \div 400)

RECURSIVE DaysBeforeMonth(_, _)
DaysBeforeMonth(y, m) ==
    IF m = 1 THEN 0 ELSE DaysBeforeMonth(y, m - 1) + DaysInMonth(y, m - 1)

\* datetime(y, m, d): midnight of that day
Datetime(y, m, d) == (DaysBeforeYear(y) + DaysBeforeMonth(y, m) + d) * TicksPerDay

\* datetime.date(): the calendar day, the time of day dropped
DateOf(t) == t \div TicksPerDay

\* datetime.weekday(): Monday is 0, Saturday 5, Sunday 6
Weekday(t) == (DateOf(t) + 6) % 7

\* timedelta.days: the whole days of a difference, floored
TimedeltaDays(delta) == delta \div TicksPerDay

\* date.strftime('%Y-%m-%d'), as the triple it prints
RECURSIVE YearOfOrdinal(_, _)
YearOfOrdinal(n, y) == IF n <= DaysBeforeYear(y + 1) THEN y ELSE YearOfOrdinal(n, y + 1)

RECURSIVE MonthOfOrdinal(_, _, _)
MonthOfOrdinal(n, y, m) ==
    IF n <= DaysBeforeYear(y) + DaysBeforeMonth(y, m) + DaysInMonth(y, m) THEN m
    ELSE MonthOfOrdinal(n, y, m + 1)

Strftime(t) ==
    LET n == DateOf(t)
        y == YearOfOrdinal(n, 2000)
        m == MonthOfOrdinal(n, y, 1)
    IN  <<y, m, n - DaysBeforeYear(y) - DaysBeforeMonth(y, m)>>

(***************************************************************************)
(* str methods, on the cell texts the input files of the model hold        *)
(***************************************************************************)
StrStrip(s) ==
    CASE s = " Saturday" -> "Saturday"
      [] s = " saturday" -> "saturday"
      [] s = "monthly "  -> "monthly"
      [] OTHER           -> s

StrLower(s) ==
    CASE s = "Saturday"  -> "saturday"
      [] s = " Saturday" -> " saturday"
      [] s = " saturday" -> " saturday"
      [] s = "Sunday"    -> "sunday"
      [] s = "SUB"       -> "sub"
      [] s = "Both"      -> "both"
      [] s = "TRUE"      -> "true"
      [] s = "Yes"       -> "yes"
      [] s = "No"        -> "no"
      [] OTHER           -> s

StrCapitalize(s) ==
    CASE s = "monthly" -> "Monthly"
      [] s = "DEFAULT" -> "Default"
      [] s = "weekly"  -> "Weekly"
      [] OTHER         -> s

(***************************************************************************)
(* load_volunteers                                                         *)
(***************************************************************************)
\* a cell pandas reads as NaN
NaN == "nan"

ParsePriority(val) == val # NaN /\ StrLower(val) \in {"true", "1", "yes"}

\* _parse_unavailable_dates: the cell is the sequence of datetimes it parses to
ParseUnavailableDates(cell) == cell

LoadRow(row) ==
    [ name              |-> StrStrip(row.Name),
      team              |-> StrStrip(StrLower(row.Team)),
      priority          |-> ParsePriority(row.Priority),
      frequency         |-> StrStrip(row.Frequency),
      allowed_date      |-> row.Allowed_Date,
      unavailable_dates |-> ParseUnavailableDates(row.Unavailable_Dates),
      camera_prefs      |-> [c \in Cameras |-> row.Cam_Pref[c] # 0] ]

(***************************************************************************)
(* generate_schedule_dates                                                 *)
(***************************************************************************)
LastDay(target_month, target_year) ==
    (IF target_month < 12 THEN Datetime(target_year, target_month + 1, 1)
                          ELSE Datetime(target_year + 1, 1, 1)) - TicksPerDay

RECURSIVE WeekendsFrom(_, _)
WeekendsFrom(current, last_day) ==
    IF current > last_day THEN <<>>
    ELSE (IF Weekday(current) = 5 THEN << <<"Saturday", current>> >>
          ELSE IF Weekday(current) = 6 THEN << <<"Sunday", current>> >>
          ELSE <<>>) \o WeekendsFrom(current + TicksPerDay, last_day)

GenerateDates(target_month, target_year) ==
    WeekendsFrom(Datetime(target_year, target_month, 1), LastDay(target_month, target_year))

(***************************************************************************)
(* is_volunteer_available                                                  *)
(***************************************************************************)
Freq(vol) == StrCapitalize(StrStrip(vol.frequency))

\* a division that rounds toward zero, as C's / does
TruncDiv(a, b) == IF a >= 0 THEN a \div b ELSE -((-a) \div b)

\* Python's // on integers: the floor
FloorDiv(a, b) == a \div b

WeeksDiff(date, allowed_date) == FloorDiv(TimedeltaDays(date - allowed_date), 7)

\* the sub rule left out
TeamExcludesNoSub(team, day_type) ==
    \/ team = "saturday" /\ day_type # "Saturday"
    \/ team = "sunday" /\ day_type # "Sunday"

\* lines 63-65: the team rules
TeamExcludes(team, day_type) ==
    \/ team = "sub"
    \/ team = "saturday" /\ day_type # "Saturday"
    \/ team = "sunday" /\ day_type # "Sunday"

\* lines 66-67: the calendar day is one of the unavailable dates
DateExcluded(unavailable_dates, date) ==
    \E i \in 1..Len(unavailable_dates) : DateOf(date) = DateOf(unavailable_dates[i])

\* the Monthly cycle taken for the two-week one
CadenceFailsEveryOther(freq, weeks_diff) == weeks_diff % 2 # 0

\* lines 73-74: the week is off the volunteer's cycle
CadenceFails(freq, weeks_diff) ==
    \/ freq = "Default" /\ weeks_diff % 2 # 0
    \/ freq = "Monthly" /\ weeks_diff % 4 # 0

IsVolunteerAvailable(volunteer, day_type, date) ==
    IF TeamExcludes(volunteer.team, day_type) THEN FALSE
    ELSE IF DateExcluded(volunteer.unavailable_dates, date) THEN FALSE
    ELSE IF Freq(volunteer) \in {"Default", "Monthly"} /\ volunteer.allowed_date # <<>>
         THEN ~CadenceFails(Freq(volunteer), WeeksDiff(date, volunteer.allowed_date[1]))
    ELSE TRUE

(***************************************************************************)
(* solve_schedule: the CP model.  A decision variable is named by a tuple, *)
(* a constraint says that the number of true variables among vars lies in  *)
(* lo..hi, an objective term gives a variable its coefficient.             *)
(***************************************************************************)
AVar(v, d, c) == <<"a", v, d, c>>

UVar(d, c) == <<"u", 0, d, c>>

\* the coverage sum at least 1, not equal to it
CoverageAtLeastOne(V, d, c) ==
    [vars |-> {AVar(v, d, c) : v \in 1..V} \cup {UVar(d, c)}, lo |-> 1, hi |-> V + 1]

\* sum(assignments[(v, d, c)] for v) + unfilled[(d, c)] == 1
Coverage(V, d, c) ==
    [vars |-> {AVar(v, d, c) : v \in 1..V} \cup {UVar(d, c)}, lo |-> 1, hi |-> 1]

\* two cameras a day let through
DailyExclusivityTwo(v, d) ==
    [vars |-> {AVar(v, d, c) : c \in Cameras}, lo |-> 0, hi |-> 2]

\* sum(assignments[(v, d, c)] for c) <= 1
DailyExclusivity(v, d) ==
    [vars |-> {AVar(v, d, c) : c \in Cameras}, lo |-> 0, hi |-> 1]

\* model.Add(assignments[(v, d, c)] == 0)
ForcedZero(v, d, c) == [vars |-> {AVar(v, d, c)}, lo |-> 0, hi |-> 0]

\* any(vol['camera_prefs'].values())
HasAnyPref(vol) == \E c \in Cameras : vol.camera_prefs[c]

\* the test of line 101 inverted
AvailabilityForcesInverted(vol, day_type, date) == IsVolunteerAvailable(vol, day_type, date)

\* line 101: the volunteer's variables of a date are forced to 0 when not available
AvailabilityForces(vol, day_type, date) == ~IsVolunteerAvailable(vol, day_type, date)

\* all() for the any() of line 95
CameraForcesAll(vol, c) == (\A k \in Cameras : vol.camera_prefs[k]) /\ ~vol.camera_prefs[c]

\* line 106: a camera outside the declared preferences is forced to 0
CameraForces(vol, c) == HasAnyPref(vol) /\ ~vol.camera_prefs[c]

\* the frequency compared as the spreadsheet spells it
MaxCapRaw(vol) ==
    IF vol.frequency = "Monthly" THEN 1 ELSE IF vol.frequency = "Default" THEN 2 ELSE 4

\* max_cap
MaxCap(vol) ==
    IF Freq(vol) = "Monthly" THEN 1 ELSE IF Freq(vol) = "Default" THEN 2 ELSE 4

\* volunteer_load[v] = NewIntVar(0, D), == the volunteer's assignments, <= max_cap
LoadVars(v, D) == {AVar(v, d, c) : d \in 1..D, c \in Cameras}

LoadDomain(v, D) == [vars |-> LoadVars(v, D), lo |-> 0, hi |-> D]

FrequencyCap(vol, v, D) == [vars |-> LoadVars(v, D), lo |-> 0, hi |-> MaxCap(vol)]

Constraints(vols, dates) ==
    LET V == Len(vols)
        D == Len(dates)
    IN  {Coverage(V, d, c) : d \in 1..D, c \in Cameras}
        \cup {DailyExclusivity(v, d) : v \in 1..V, d \in 1..D}
        \cup {ForcedZero(x[1], x[2], x[3]) :
                x \in {y \in (1..V) \X (1..D) \X Cameras :
                         AvailabilityForces(vols[y[1]], dates[y[2]][1], dates[y[2]][2])}}
        \cup {ForcedZero(x[1], x[2], x[3]) :
                x \in {y \in (1..V) \X (1..D) \X Cameras : CameraForces(vols[y[1]], y[3])}}
        \cup {LoadDomain(v, D) : v \in 1..V}
        \cup {FrequencyCap(vols[v], v, D) : v \in 1..V}

\* the penalty with its sign lost
UnfilledCoefReward(d, c) == 1000000

\* obj.append(-1000000 * unfilled[(d, c)])
UnfilledCoef(d, c) == -1000000

\* the priority flag ignored
TierWeightNoPriority(vol) ==
    IF vol.team \in {"saturday", "sunday"} /\ Freq(vol) = "Default" THEN 100 ELSE 50

\* tier_weight
TierWeight(vol) ==
    (IF vol.team \in {"saturday", "sunday"} /\ Freq(vol) = "Default" THEN 100 ELSE 50)
    * (IF vol.priority THEN 50 ELSE 1)

\* the bonus of a preferred camera
PrefBonus(vol, c) == IF vol.camera_prefs[c] THEN 5000 ELSE 0

\* the coefficient the objective gives a variable: the sum of its terms
Coef(vols, x) ==
    IF x[1] = "u" THEN UnfilledCoef(x[3], x[4])
    ELSE TierWeight(vols[x[2]]) + PrefBonus(vols[x[2]], x[4])

(***************************************************************************)
(* CpSolver.Solve: the valuations that satisfy every constraint, found by  *)
(* deciding the variables in slot order and dropping a branch as soon as   *)
(* one constraint cannot hold any more; each comes with its objective.     *)
(***************************************************************************)
\* the variables, slot by slot: assignments[(1..V, d, c)], then unfilled[(d, c)]
AllVars(V, D) ==
    [i \in 1..(D * NumCameras * (V + 1)) |->
        LET s == (i - 1) \div (V + 1)
            j == ((i - 1) % (V + 1)) + 1
            d == (s \div NumCameras) + 1
            c == (s % NumCameras) + 1
        IN  IF j <= V THEN AVar(j, d, c) ELSE UVar(d, c)]

Satisfies(T, cons) ==
    \A k \in cons : LET n == Cardinality(k.vars \cap T) IN k.lo <= n /\ n <= k.hi

\* the variable ix[i] decided one way and the other in the partial valuation s
Decide(ix, i, s) ==
    LET e == ix[i]
        Ok(S) == \A k \in e.cons :
                   LET n == Cardinality(k.vars \cap S)
                   IN  n <= k.hi /\ (k.last = i => n >= k.lo)
    IN  (IF Ok(s.val \cup {e.var})
         THEN {[val |-> s.val \cup {e.var}, obj |-> s.obj + e.coef]} ELSE {})
        \cup (IF Ok(s.val) THEN {s} ELSE {})

\* the partial valuations of S with the variables ix[from..to] decided as well
RECURSIVE Search(_, _, _, _)
Search(ix, from, to, S) ==
    IF S = {} \/ from > to THEN S
    ELSE IF from = to THEN UNION {Decide(ix, from, s) : s \in S}
    ELSE LET mid == (from + to) \div 2
         IN  Search(ix, mid + 1, to, Search(ix, from, mid, S))

\* the sum of Coef over the variables xs[from..to]
RECURSIVE SumCoef(_, _, _, _)
SumCoef(vols, xs, from, to) ==
    IF from > to THEN 0
    ELSE IF from = to THEN Coef(vols, xs[from])
    ELSE LET mid == (from + to) \div 2
         IN  SumCoef(vols, xs, from, mid) + SumCoef(vols, xs, mid + 1, to)

\* zero: the variables a constraint forces to 0; one: those a constraint forces
\* to 1 once the zeros are known; the search decides the others
Solutions(vols, dates) ==
    LET cons  == Constraints(vols, dates)
        all   == AllVars(Len(vols), Len(dates))
        zero  == UNION {k.vars : k \in {q \in cons : q.hi = 0}}
        one   == UNION {k.vars \ zero :
                          k \in {q \in cons : q.lo > 0 /\ q.lo = Cardinality(q.vars \ zero)}}
        ones  == SelectSeq(all, LAMBDA x : x \in one)
        order == SelectSeq(all, LAMBDA x : x \notin zero /\ x \notin one)
        N     == Len(order)
        Last(k) == LET I == {i \in 1..N : order[i] \in k.vars}
                   IN  IF I = {} THEN 0 ELSE CHOOSE i \in I : \A j \in I : j <= i
        live  == {[vars |-> k.vars, lo |-> k.lo, hi |-> k.hi, last |-> Last(k)] :
                    k \in {q \in cons : q.hi > 0}}
        ix    == [i \in 1..N |->
                    [var |-> order[i], coef |-> Coef(vols, order[i]),
                     cons |-> {k \in live : order[i] \in k.vars}]]
    IN  IF \E k \in cons :
               \/ Cardinality(k.vars \cap one) > k.hi
               \/ Cardinality(k.vars \ zero) < k.lo
        THEN {}
        ELSE Search(ix, 1, N, {[val |-> one, obj |-> SumCoef(vols, ones, 1, Len(ones))]})

\* the greatest of a non-empty set of integers
MaxOf(S) == CHOOSE n \in S : \A m \in S : m <= n

MinOf(S) == CHOOSE n \in S : \A m \in S : n <= m

(***************************************************************************)
(* _extract_solution                                                       *)
(***************************************************************************)
Unfilled == "** UNFILLED **"

\* a 'Camera c' key the loop never sets
NoCell == "<no key>"

\* the cell of camera c on date d: the unfilled marker, else the first volunteer
\* in list order whose variable is 1
Cell(T, vols, d, c) ==
    IF UVar(d, c) \in T THEN Unfilled
    ELSE LET S == {v \in 1..Len(vols) : AVar(v, d, c) \in T}
         IN  IF S = {} THEN NoCell ELSE vols[MinOf(S)].name

\* date.strftime of every schedule date
DateStamps(dates) == <<>> \o [d \in 1..Len(dates) |-> Strftime(dates[d][2])]

ExtractSchedule(T, vols, dates, stamps) ==
    [d \in 1..Len(dates) |->
        [Day  |-> dates[d][1],
         Date |-> stamps[d],
         Camera |-> [c \in Cameras |-> Cell(T, vols, d, c)]]]

\* total_unfilled: one for every slot whose unfilled variable is 1
TotalUnfilled(T) == Cardinality({x \in T : x[1] = "u"})

\* volunteer_counts: one for every cell that holds the volunteer's name
VolunteerCounts(T, vols) ==
    LET named == {x \in T : /\ x[1] = "a"
                            /\ UVar(x[3], x[4]) \notin T
                            /\ \A w \in 1..(x[2] - 1) : AVar(w, x[3], x[4]) \notin T}
    IN  [n \in {vols[x[2]].name : x \in named} |->
            Cardinality({x \in named : vols[x[2]].name = n})]

(***************************************************************************)
(* The scheduler object and one run of main() on it.                       *)
(***************************************************************************)
VARIABLES
    pc,               \* where main() stands: "load", "dates", "solve", "done"
    input_file,       \* the rows of the spreadsheet
    target,           \* the target_month and target_year main() passes
    volunteers,       \* self.volunteers
    schedule_dates,   \* self.schedule_dates
    status,           \* what solver.Solve returned
    value,            \* the variables solver.Value gives 1
    result,           \* what solve_schedule returned: <<>> for None, else <<schedule>>
    total_unfilled,   \* _extract_solution's total_unfilled
    volunteer_counts, \* _extract_solution's volunteer_counts
    optimum           \* of the model solved: the best objective and the fewest unfilled slots

vars == <<pc, input_file, target, volunteers, schedule_dates, status, value, result,
          total_unfilled, volunteer_counts, optimum>>

Start(file, month, year) ==
    /\ pc = "load"
    /\ input_file = file
    /\ target = [month |-> month, year |-> year]
    /\ volunteers = <<>>
    /\ schedule_dates = <<>>
    /\ status = "NOT_RUN"
    /\ value = {}
    /\ result = <<>>
    /\ total_unfilled = 0
    /\ volunteer_counts = <<>>
    /\ optimum = [obj |-> 0, unfilled |-> 0]

\* scheduler.load_volunteers()
LoadVolunteers ==
    /\ pc = "load"
    /\ volunteers' = volunteers \o [i \in 1..Len(input_file) |-> LoadRow(input_file[i])]
    /\ pc' = "dates"
    /\ UNCHANGED <<input_file, target, schedule_dates, status, value, result,
                   total_unfilled, volunteer_counts, optimum>>

\* scheduler.generate_schedule_dates(target_month, target_year)
GenerateScheduleDates ==
    /\ pc = "dates"
    /\ schedule_dates' = GenerateDates(target.month, target.year)
    /\ pc' = "solve"
    /\ UNCHANGED <<input_file, target, volunteers, status, value, result,
                   total_unfilled, volunteer_counts, optimum>>

\* scheduler.solve_schedule(): the model is built and solved; no limit is set on
\* the solver, so it ends with a valuation whenever one exists: a best one as
\* OPTIMAL, and (the code accepts it alike) any one as FEASIBLE
SolveSchedule ==
    /\ pc = "solve"
    /\ pc' = "done"
    /\ \E sols \in {Solutions(volunteers, schedule_dates)} :
         IF sols = {}
         THEN /\ status' = "INFEASIBLE"
              /\ UNCHANGED <<value, result, total_unfilled, volunteer_counts, optimum>>
         ELSE \E best \in {[obj      |-> MaxOf({s.obj : s \in sols}),
                            unfilled |-> MinOf({TotalUnfilled(s.val) : s \in sols})]},
                 stamps \in {DateStamps(schedule_dates)} :
                \E s \in sols :
                  /\ status' \in (IF s.obj = best.obj THEN {"OPTIMAL"} ELSE {}) \cup {"FEASIBLE"}
                  /\ value' = s.val
                  /\ result' = <<ExtractSchedule(s.val, volunteers, schedule_dates, stamps)>>
                  /\ total_unfilled' = TotalUnfilled(s.val)
                  /\ volunteer_counts' = VolunteerCounts(s.val, volunteers)
                  /\ optimum' = best
    /\ UNCHANGED <<input_file, target, volunteers, schedule_dates>>

Next == LoadVolunteers \/ GenerateScheduleDates \/ SolveSchedule

(***************************************************************************)
(* The input files of the specifications                                   *)
(***************************************************************************)
Prefs(S) == [c \in Cameras |-> IF c \in S THEN 1 ELSE 0]

Row(name, team, priority, frequency, allowed, unavailable, prefs) ==
    [Name |-> name, Team |-> team, Priority |-> priority, Frequency |-> frequency,
     Allowed_Date |-> allowed, Unavailable_Dates |-> unavailable, Cam_Pref |-> Prefs(prefs)]

\* the datetime `tick` ticks into the day
At(y, m, d, tick) == Datetime(y, m, d) + tick

\* the spreadsheets that keep at most n rows of the spreadsheet `sheet`, in its order
RECURSIVE Pick(_, _)
Pick(sheet, K) ==
    IF sheet = <<>> THEN <<>>
    ELSE (IF Len(sheet) \in K THEN <<sheet[Len(sheet)]>> ELSE <<>>)
         \o Pick(SubSeq(sheet, 1, Len(sheet) - 1), K)

Reverse(q) == [i \in 1..Len(q) |-> q[Len(q) + 1 - i]]

Sheets(sheet, n) ==
    {Reverse(Pick(sheet, K)) : K \in {S \in SUBSET (1..Len(sheet)) : Cardinality(S) <= n}}

(***************************************************************************)
(* The general specification: at most MaxVolunteers rows of Roster,        *)
(* scheduled for January or February 2026.                                 *)
(***************************************************************************)
Roster ==
    << Row("Ann", " Saturday", "No", "Default", <<At(FirstYear, 1, 3, 0)>>, <<>>, {2, 3}),
       Row("Bob", "Sunday", NaN, "monthly ", <<>>, <<>>, {5, 6, 7}),
       Row("Cy", "Both", "Yes", "DEFAULT", <<At(FirstYear, 1, 17, 1)>>,
           <<At(FirstYear, 1, 24, 1), At(FirstYear, 2, 1, 0)>>, {1}),
       Row("Dee", "SUB", "TRUE", "Default", <<>>, <<>>, {}),
       Row("Eve", "Saturday", "TRUE", "weekly", <<>>, <<>>, {1}),
       Row("Fay", "sub", "No", "weekly", <<>>, <<At(FirstYear, 1, 3, 0)>>, {4}),
       Row("Gus", "Both", "No", "Monthly", <<At(FirstYear, 2, 7, 0)>>, <<>>, {}) >>

Init ==
    \E file \in Sheets(Roster, MaxVolunteers), month \in {1, 2} : Start(file, month, FirstYear)

Spec == Init /\ [][Next]_vars

(***************************************************************************)
(* The monthly specification: one Monthly volunteer of the Saturday team,  *)
(* anchored on the first Saturday of the target month, for every month of  *)
(* FirstYear .. FirstYear + YearSpan.                                      *)
(***************************************************************************)
FirstSaturday(dates) ==
    dates[MinOf({d \in 1..Len(dates) : dates[d][1] = "Saturday"})][2]

InitMonthly ==
    \E month \in 1..12, year \in FirstYear..(FirstYear + YearSpan),
       priority \in {"No", "Yes"}, prefs \in {{}, {1}} :
      Start(<<Row("Mo", "Saturday", priority, "Monthly",
                  <<FirstSaturday(GenerateDates(month, year))>>, <<>>, prefs)>>,
            month, year)

SpecMonthly == InitMonthly /\ [][Next]_vars

(***************************************************************************)
(* The priority specification: Monthly volunteers of the Saturday team,    *)
(* all anchored on the same Saturday and so available on that date alone:  *)
(* Zed takes any camera, the others one camera each.                       *)
(***************************************************************************)
Contender(name, priority, prefs) ==
    Row(name, "Saturday", priority, "Monthly", <<At(FirstYear, 2, 7, 0)>>, <<>>, prefs)

Front ==
    << Contender("Zed", "Yes", {}), Contender("Ben", "No", {1}),
       Contender("Pat", "Yes", {1}), Contender("Sam2", "No", {2}) >>

BackNames == <<"Sam3", "Sam4", "Sam5", "Sam6", "Sam7">>

Back == [i \in 1..Len(BackNames) |-> Contender(BackNames[i], "No", {i + 2})]

InitPriority ==
    \E front \in Sheets(Front, Len(Front)), back \in {<<>>, Back}, month \in {1, 2} :
      Start(front \o back, month, FirstYear)

SpecPriority == InitPriority /\ [][Next]_vars

(***************************************************************************)
(* What the properties read off a state                                    *)
(***************************************************************************)
NV == Len(volunteers)

ND == Len(schedule_dates)

Accepted == status \in {"OPTIMAL", "FEASIBLE"}

Assigned(v, d, c) == AVar(v, d, c) \in value

IsUnfilled(d, c) == UVar(d, c) \in value

AvailableOn(v, d) ==
    IsVolunteerAvailable(volunteers[v], schedule_dates[d][1], schedule_dates[d][2])

Permitted(v, c) == ~HasAnyPref(volunteers[v]) \/ volunteers[v].camera_prefs[c]

Eligible(v, d, c) == AvailableOn(v, d) /\ Permitted(v, c)

Load(v) == Cardinality({x \in value : x[1] = "a" /\ x[2] = v})

BusyOn(v, d) == \E c \in Cameras : Assigned(v, d, c)

(***************************************************************************)
(* Properties                                                              *)
(***************************************************************************)

\* C1: in every accepted valuation each slot is either unfilled and held by
\* no volunteer, or not unfilled and held by exactly one volunteer.
C1_ExactlyOnePerSlot ==
    Accepted =>
      \A d \in 1..ND, c \in Cameras :
        LET n == Cardinality({v \in 1..NV : Assigned(v, d, c)})
        IN  (IsUnfilled(d, c) /\ n = 0) \/ (~IsUnfilled(d, c) /\ n = 1)

\* a slot two volunteers could take is held by one of them, and another slot
\* a volunteer could take is left unfilled
C1_Witness ==
    /\ Accepted
    /\ \E d \in 1..ND, c \in Cameras, v, w \in 1..NV :
         v # w /\ Assigned(v, d, c) /\ Eligible(w, d, c) /\ ~IsUnfilled(d, c)
    /\ \E d \in 1..ND, c \in Cameras, v \in 1..NV : Eligible(v, d, c) /\ IsUnfilled(d, c)

\* C2: in every accepted valuation a volunteer holds a slot only on a date
\* is_volunteer_available accepts for them.
C2_OnlyWhenAvailable ==
    Accepted =>
      \A v \in 1..NV, d \in 1..ND, c \in Cameras : Assigned(v, d, c) => AvailableOn(v, d)

\* a volunteer of both days holds a slot, and slots they are trained for stay
\* unfilled on a date their unavailable dates exclude and on one their cadence
\* excludes
C2_Witness ==
    /\ Accepted
    /\ \E v \in 1..NV, c \in Cameras :
         /\ volunteers[v].team = "both"
         /\ Permitted(v, c)
         /\ \E d \in 1..ND : Assigned(v, d, c)
         /\ \E d \in 1..ND :
              /\ DateExcluded(volunteers[v].unavailable_dates, schedule_dates[d][2])
              /\ IsUnfilled(d, c)
         /\ \E d \in 1..ND :
              /\ ~DateExcluded(volunteers[v].unavailable_dates, schedule_dates[d][2])
              /\ ~AvailableOn(v, d)
              /\ IsUnfilled(d, c)

\* the cap the claim gives a frequency
ClaimedCap(frequency) ==
    CASE frequency = "Monthly" -> 1
      [] frequency = "Default" -> 2
      [] OTHER                 -> 4

\* C3: in every accepted valuation no volunteer holds more slots than the
\* cap of their frequency: 1 for Monthly, 2 for Default, 4 otherwise.
C3_FrequencyCap ==
    Accepted => \A v \in 1..NV : Load(v) <= ClaimedCap(Freq(volunteers[v]))

\* a Weekly volunteer holds 4 slots and a Monthly one holds 1, and each has a
\* further date on which they are available and a slot they could take is unfilled
C3_Witness ==
    /\ Accepted
    /\ \E v, w \in 1..NV :
         /\ Freq(volunteers[v]) = "Weekly" /\ Load(v) = 4
         /\ Freq(volunteers[w]) = "Monthly" /\ Load(w) = 1
         /\ \A u \in {v, w} :
              \E d \in 1..ND, c \in Cameras :
                ~BusyOn(u, d) /\ Eligible(u, d, c) /\ IsUnfilled(d, c)

\* C4: in every accepted valuation a volunteer with a declared preference
\* holds only cameras they declared.
C4_OnlyPreferredCameras ==
    Accepted =>
      \A v \in 1..NV :
        HasAnyPref(volunteers[v]) =>
          \A d \in 1..ND, c \in Cameras : Assigned(v, d, c) => volunteers[v].camera_prefs[c]

\* a volunteer with declared cameras holds one of them while another camera is
\* unfilled that day, and a volunteer with none declared holds the last camera
C4_Witness ==
    /\ Accepted
    /\ \E v \in 1..NV, d \in 1..ND, c, k \in Cameras :
         /\ HasAnyPref(volunteers[v]) /\ Assigned(v, d, c)
         /\ ~volunteers[v].camera_prefs[k] /\ IsUnfilled(d, k)
    /\ \E v \in 1..NV, d \in 1..ND :
         ~HasAnyPref(volunteers[v]) /\ Assigned(v, d, NumCameras)

\* C5: in every accepted valuation a volunteer holds at most one camera on a date.
C5_OneCameraPerDate ==
    Accepted =>
      \A v \in 1..NV, d \in 1..ND : Cardinality({c \in Cameras : Assigned(v, d, c)}) <= 1

\* a volunteer below their cap holds a camera on a date on which another camera
\* they could take is unfilled
C5_Witness ==
    /\ Accepted
    /\ \E v \in 1..NV, d \in 1..ND, c, k \in Cameras :
         /\ c # k /\ Assigned(v, d, c) /\ Eligible(v, d, k) /\ IsUnfilled(d, k)
         /\ Load(v) < MaxCap(volunteers[v])

\* C6: a valuation that maximizes the objective leaves as few slots unfilled
\* as any valuation satisfying the constraints does.
C6_OptimumFillsMost ==
    status = "OPTIMAL" => TotalUnfilled(value) = optimum.unfilled

\* an optimum in which two volunteers hold slots, one of them with a priority
\* flag, and some slot is left unfilled
C6_Witness ==
    /\ status = "OPTIMAL"
    /\ total_unfilled = optimum.unfilled
    /\ total_unfilled < ND * NumCameras - 2
    /\ \E v, w \in 1..NV :
         /\ volunteers[v].priority /\ ~volunteers[w].priority
         /\ Load(v) > 0 /\ Load(w) > 0

\* the volunteers the scenario of C7 is about
MonthlySaturdayOnFirst(v) ==
    /\ Freq(volunteers[v]) = "Monthly"
    /\ volunteers[v].team = "saturday"
    /\ ND > 0
    /\ volunteers[v].allowed_date = <<FirstSaturday(schedule_dates)>>

Saturdays == {d \in 1..ND : schedule_dates[d][1] = "Saturday"}

EligibleSaturdays(v) == {d \in Saturdays : AvailableOn(v, d)}

\* C7 as claimed: such a volunteer is available on exactly one Saturday of
\* the target month and holds at most one slot.
C7_ExactlyOneSaturday ==
    pc = "done" =>
      \A v \in 1..NV :
        MonthlySaturdayOnFirst(v) => Cardinality(EligibleSaturdays(v)) = 1 /\ Load(v) <= 1

\* C7 as amended: such a volunteer is available on the first Saturday of the
\* month, on its fifth Saturday when it has one, and on no other date: on
\* exactly one Saturday of a month of four, on exactly two of a month of five;
\* they hold at most one slot.
C7_FirstAndFifthSaturday ==
    pc = "done" =>
      \A v \in 1..NV :
        MonthlySaturdayOnFirst(v) =>
          /\ \A d \in 1..ND :
               AvailableOn(v, d) <=>
                 /\ d \in Saturdays
                 /\ Cardinality({e \in Saturdays : e < d}) \in {0, 4}
          /\ Cardinality(EligibleSaturdays(v)) = (IF Cardinality(Saturdays) = 5 THEN 2 ELSE 1)
          /\ Load(v) <= 1

\* in a month of five Saturdays the volunteer holds a slot of the fifth
C7_Witness ==
    /\ Accepted
    /\ \E v \in 1..NV, d \in Saturdays, c \in Cameras :
         /\ MonthlySaturdayOnFirst(v)
         /\ Cardinality({e \in Saturdays : e < d}) = 4
         /\ Assigned(v, d, c)

\* the valuation with slot (d, c) passed from volunteer b to volunteer a
Handed(a, b, d, c) == (value \ {AVar(b, d, c)}) \cup {AVar(a, d, c)}

\* a with the priority flag, b without, same team and frequency, both
\* available on d and allowed camera c
Rivals(a, b, d, c) ==
    /\ volunteers[a].priority /\ ~volunteers[b].priority
    /\ volunteers[a].team = volunteers[b].team
    /\ Freq(volunteers[a]) = Freq(volunteers[b])
    /\ Eligible(a, d, c) /\ Eligible(b, d, c)

\* C8 as claimed: between such rivals the priority volunteer's weight is 50
\* times the other's, and no optimum gives the slot to the other one when
\* handing it to the priority volunteer, all else unchanged, satisfies the
\* constraints.
C8_PriorityTakesSlot ==
    status = "OPTIMAL" =>
      \A a, b \in 1..NV, d \in 1..ND, c \in Cameras :
        Rivals(a, b, d, c) =>
          /\ TierWeight(volunteers[a]) = 50 * TierWeight(volunteers[b])
          /\ Assigned(b, d, c) =>
               ~Satisfies(Handed(a, b, d, c), Constraints(volunteers, schedule_dates))

\* C8 as amended: the same, unless the other volunteer declared the camera
\* preferred and the priority volunteer declared none.
C8_PriorityTakesSlotAtEqualBonus ==
    status = "OPTIMAL" =>
      \A a, b \in 1..NV, d \in 1..ND, c \in Cameras :
        Rivals(a, b, d, c) =>
          /\ TierWeight(volunteers[a]) = 50 * TierWeight(volunteers[b])
          /\ (Assigned(b, d, c)
              /\ ~(volunteers[b].camera_prefs[c] /\ ~volunteers[a].camera_prefs[c])) =>
               ~Satisfies(Handed(a, b, d, c), Constraints(volunteers, schedule_dates))

\* an optimum gives the priority volunteer the slot and leaves the rival
\* without any, while every camera of that date is held
C8_Witness ==
    /\ status = "OPTIMAL"
    /\ \E a, b \in 1..NV, d \in 1..ND, c \in Cameras :
         /\ Rivals(a, b, d, c)
         /\ volunteers[a].camera_prefs[c] /\ volunteers[b].camera_prefs[c]
         /\ Assigned(a, d, c)
         /\ Load(b) = 0
         /\ \A k \in Cameras : ~IsUnfilled(d, k)

AllSub == \A v \in 1..NV : volunteers[v].team = "sub"

\* C9: solve_schedule always returns a schedule, and when every volunteer is
\* of the sub team every unfilled variable is true, every camera cell holds
\* the unfilled marker and the unfilled count is D x 7.
C9_AlwaysASchedule ==
    pc = "done" =>
      /\ Accepted
      /\ result # <<>>
      /\ AllSub =>
           /\ \A d \in 1..ND, c \in Cameras : IsUnfilled(d, c)
           /\ Len(result[1]) = ND
           /\ \A d \in 1..ND, c \in Cameras : result[1][d].Camera[c] = Unfilled
           /\ total_unfilled = ND * 7

\* the best valuation of a list of two sub volunteers
C9_Witness ==
    /\ pc = "done"
    /\ status = "OPTIMAL"
    /\ NV = 2
    /\ AllSub
    /\ total_unfilled = ND * 7

\* the rule as the claim words it, the weeks counted in one floor division
ClaimedAvailable(volunteer, day_type, date) ==
    CASE volunteer.team = "sub" -> FALSE
      [] volunteer.team = "saturday" /\ day_type = "Sunday" -> FALSE
      [] volunteer.team = "sunday" /\ day_type = "Saturday" -> FALSE
      [] OTHER ->
           IF DateOf(date) \in {DateOf(volunteer.unavailable_dates[i]) :
                                  i \in 1..Len(volunteer.unavailable_dates)}
           THEN FALSE
           ELSE IF volunteer.allowed_date = <<>> THEN TRUE
           ELSE LET weeks_diff == (date - volunteer.allowed_date[1]) \div (7 * TicksPerDay)
                IN  CASE Freq(volunteer) = "Default" -> weeks_diff % 2 = 0
                      [] Freq(volunteer) = "Monthly" -> weeks_diff % 4 = 0
                      [] OTHER -> TRUE

\* every datetime from ProbeWeeks weeks before the target month to ProbeWeeks
\* weeks after it
ProbeDates ==
    (Datetime(target.year, target.month, 1) - 7 * ProbeWeeks * TicksPerDay)
    .. (LastDay(target.month, target.year) + 7 * ProbeWeeks * TicksPerDay)

\* C10: is_volunteer_available is the ordered rule of the claim, for every
\* volunteer, both day types and every datetime around the target month
\* (before the solve) and for every schedule date the solve asked about.
C10_AvailabilityRule ==
    /\ pc = "solve" =>
         \A v \in 1..NV, day_type \in {"Saturday", "Sunday"}, date \in ProbeDates :
           IsVolunteerAvailable(volunteers[v], day_type, date)
             = ClaimedAvailable(volunteers[v], day_type, date)
    /\ pc = "done" =>
         \A v \in 1..NV, d \in 1..ND :
           AvailableOn(v, d)
             = ClaimedAvailable(volunteers[v], schedule_dates[d][1], schedule_dates[d][2])

\* a volunteer holds a slot on a date before their anchor that is not a whole
\* number of weeks away from it
C10_Witness ==
    /\ Accepted
    /\ \E v \in 1..NV, d \in 1..ND, c \in Cameras :
         /\ Assigned(v, d, c)
         /\ Freq(volunteers[v]) \in {"Default", "Monthly"}
         /\ volunteers[v].allowed_date # <<>>
         /\ schedule_dates[d][2] < volunteers[v].allowed_date[1]
         /\ (volunteers[v].allowed_date[1] - schedule_dates[d][2]) % (7 * TicksPerDay) # 0

====
